---- MODULE Spec2Model ----
(***************************************************************************)
(* BigInteger (big_integer.h / big_integer.cpp): a sign-magnitude integer  *)
(* whose magnitude is a vector of base-10000 limbs, least significant      *)
(* first.  A value is the record [digits, is_negative]; sequences are      *)
(* 1-based here, so the C++ limb digits_[i] is digits[i + 1].              *)
(*                                                                         *)
(* Every member function is an operator computed the way the C++ computes  *)
(* it.  An operator that can throw returns an outcome [v, err]: err is     *)
(* "none" or the kind of failure, and v is the object as the function left *)
(* it.  Loops over a whole limb vector are folded by halves (first half,   *)
(* then second half, same order of iterations as the for statement) so     *)
(* that the depth of evaluation stays logarithmic in the vector's length.  *)
(***************************************************************************)
EXTENDS Integers, Sequences, FiniteSets, TLC

VARIABLES a, b, r, product, op, err, text, out, cmp, n

vars == <<a, b, r, product, op, err, text, out, cmp, n>>

(***************************************************************************)
(* Program constants.                                                       *)
(***************************************************************************)
kBase == 10000

kBaseDigits == 4

kMaxDigitCount == 30009

(***************************************************************************)
(* Characters.  A std::string is a sequence of one-character strings; Ord  *)
(* is the character's code, so that str[j] - '0' is computed as in C++.    *)
(***************************************************************************)
DigitChars == <<"0", "1", "2", "3", "4", "5", "6", "7", "8", "9">>

Ord(c) ==
  CASE c = "+" -> 43
    [] c = "-" -> 45
    [] c = "nul" -> 0
    [] OTHER -> 47 + (CHOOSE k \in 1..10 : DigitChars[k] = c)

\* str[i] for a 0-based i; str[str.length()] is the terminating '\0'.
CharAt(str, i) == IF i < Len(str) THEN str[i + 1] ELSE "nul"

Max2(x, y) == IF x >= y THEN x ELSE y

BI(d, neg) == [digits |-> d, is_negative |-> neg]

Ok(v) == [v |-> v, err |-> "none"]

Throw(v, e) == [v |-> v, err |-> e]

\* BigInteger::BigInteger()
DefaultBigInteger == BI(<<>>, FALSE)

\* BigInteger::CheckOverflow: TRUE when it throws BigIntegerOverflow.
CheckOverflowThrows(value) == value < 0 \/ value >= kBase

\* BigInteger::RemoveLeadingZeros: pops back() while it is 0, which leaves
\* the prefix that ends at the last non-zero limb.
RECURSIVE LastNonZero(_, _, _)
LastNonZero(d, lo, hi) ==
  IF lo > hi THEN 0
  ELSE IF d[hi] # 0 THEN hi
  ELSE IF lo = hi THEN 0
  ELSE IF LastNonZero(d, ((lo + hi) \div 2) + 1, hi) # 0
       THEN LastNonZero(d, ((lo + hi) \div 2) + 1, hi)
       ELSE LastNonZero(d, lo, (lo + hi) \div 2)

RemoveLeadingZeros(d) == SubSeq(d, 1, LastNonZero(d, 1, Len(d)))

\* The second statement of Normalize, on the limbs d left by the first.
ClearSignOfZero(d, neg) == BI(d, IF d = <<>> THEN FALSE ELSE neg)

\* BigInteger::Normalize
Normalize(x) == ClearSignOfZero(RemoveLeadingZeros(x.digits), x.is_negative)

\* BigInteger::AddDigits, appending to the limbs d.
RECURSIVE AddDigits(_, _)
AddDigits(d, value) ==
  IF value > 0 THEN AddDigits(Append(d, value % kBase), value \div kBase)
  ELSE d

\* BigInteger::BigInteger(int) and BigInteger(int64_t)
FromInt(value) ==
  BI(AddDigits(<<>>, IF value < 0 THEN -value ELSE value), value < 0)

(***************************************************************************)
(* BigInteger::ParseString.  The outer for statement takes the groups of   *)
(* kBaseDigits characters from the end of the string: group k ends at the  *)
(* 0-based position i = length - 1 - k * kBaseDigits.                      *)
(***************************************************************************)
\* The inner for statement, from j to i, with digit as accumulated so far.
RECURSIVE ParseGroup(_, _, _, _)
ParseGroup(str, j, i, digit) ==
  IF j > i THEN [digit |-> digit, err |-> "none"]
  ELSE IF CheckOverflowThrows(digit * 10 + (Ord(CharAt(str, j)) - Ord("0")))
       THEN [digit |-> digit, err |-> "overflow"]
       ELSE ParseGroup(str, j + 1, i,
                       digit * 10 + (Ord(CharAt(str, j)) - Ord("0")))

\* digits_.push_back(digit) after the group g; s = [d, err].
ParsePush(s, g) ==
  IF g.err # "none" THEN [d |-> s.d, err |-> g.err]
  ELSE [d |-> Append(s.d, g.digit), err |-> "none"]

\* The pass of the outer for statement whose group ends at i.
ParseAt(str, start, s, i) ==
  ParsePush(s, ParseGroup(str, Max2(start, i - kBaseDigits + 1), i, 0))

ParseStep(str, start, s, k) ==
  IF s.err # "none" THEN s
  ELSE ParseAt(str, start, s, Len(str) - 1 - k * kBaseDigits)

\* The passes for the groups lo..hi.
RECURSIVE ParseLoop(_, _, _, _, _)
ParseLoop(str, start, s, lo, hi) ==
  IF lo > hi THEN s
  ELSE IF lo = hi THEN ParseStep(str, start, s, lo)
  ELSE LET first == ParseLoop(str, start, s, lo, (lo + hi) \div 2)
       IN IF first.err # "none" THEN first
          ELSE ParseLoop(str, start, first, ((lo + hi) \div 2) + 1, hi)

\* RemoveLeadingZeros() at the end of ParseString; s is what the loop left.
ParseEnd(neg, s) ==
  IF s.err # "none" THEN Throw(BI(s.d, neg), s.err)
  ELSE Ok(BI(RemoveLeadingZeros(s.d), neg))

ParseFrom(str, neg, start) ==
  ParseEnd(neg,
           ParseLoop(str, start, [d |-> <<>>, err |-> "none"], 0,
                     ((Len(str) - start + kBaseDigits - 1) \div kBaseDigits) - 1))

ParseString(str) ==
  ParseFrom(str, CharAt(str, 0) = "-",
            IF CharAt(str, 0) \in {"-", "+"} THEN 1 ELSE 0)

(***************************************************************************)
(* operator<<: the sign, the most significant limb unpadded, then every    *)
(* other limb with setw(kBaseDigits) and setfill('0').                     *)
(***************************************************************************)
RECURSIVE IntChars(_)
IntChars(v) ==
  IF v < 10 THEN <<DigitChars[v + 1]>>
  ELSE Append(IntChars(v \div 10), DigitChars[(v % 10) + 1])

RECURSIVE PadLeft(_, _)
PadLeft(s, w) == IF Len(s) >= w THEN s ELSE PadLeft(<<"0">> \o s, w)

RECURSIVE PaddedLimbs(_, _)
PaddedLimbs(d, i) ==
  IF i < 1 THEN <<>>
  ELSE PadLeft(IntChars(d[i]), kBaseDigits) \o PaddedLimbs(d, i - 1)

Format(value) ==
  (IF value.is_negative THEN <<"-">> ELSE <<>>) \o
  (IF value.digits = <<>> THEN <<"0">>
   ELSE IntChars(value.digits[Len(value.digits)]) \o
        PaddedLimbs(value.digits, Len(value.digits) - 1))

(***************************************************************************)
(* Comparison: operator< is the primitive, the other five derive from it.  *)
(***************************************************************************)
RECURSIVE LessLimbs(_, _, _)
LessLimbs(x, y, i) ==
  IF i < 1 THEN FALSE
  ELSE IF x.digits[i] # y.digits[i]
       THEN (x.digits[i] < y.digits[i]) # x.is_negative
       ELSE LessLimbs(x, y, i - 1)

\* A comparison that skips the test on the signs: the order it gives is not
\* asymmetric on operands of different signs.
LessIgnoringSign(x, y) ==
  IF Len(x.digits) # Len(y.digits)
  THEN (Len(x.digits) < Len(y.digits)) # x.is_negative
  ELSE LessLimbs(x, y, Len(x.digits))

\* operator<
Less(x, y) ==
  IF x.is_negative # y.is_negative THEN x.is_negative
  ELSE IF Len(x.digits) # Len(y.digits)
       THEN (Len(x.digits) < Len(y.digits)) # x.is_negative
       ELSE LessLimbs(x, y, Len(x.digits))

\* operator==
Equal(x, y) == ~Less(x, y) /\ ~Less(y, x)

\* operator!=
NotEqual(x, y) == ~Equal(x, y)

\* operator<=
LessEq(x, y) == ~Less(y, x)

\* operator>
Greater(x, y) == Less(y, x)

\* operator>=
GreaterEq(x, y) == ~Less(x, y)

(***************************************************************************)
(* Unary operators.                                                        *)
(***************************************************************************)
\* BigInteger::Absolute
Absolute(x) == BI(x.digits, FALSE)

\* BigInteger::operator-() const
Negate(x) == Normalize(BI(x.digits, ~x.is_negative))

\* BigInteger::operator+() const
UnaryPlus(x) == x

(***************************************************************************)
(* operator+= and operator-=.  The two redirect to each other, so each     *)
(* takes the set of calls that are active above it: a call entered with    *)
(* the operands of a call that is still active repeats that call's steps   *)
(* and never returns (err = "no_return": the recursion ends only when the  *)
(* stack is exhausted).  In the loops i is the 0-based index of the C++.   *)
(***************************************************************************)
\* The limbs d grown with zeros to size limbs (push_back(0) until the size
\* is reached, and vector::resize on an empty vector).
PadZeros(d, size) ==
  IF Len(d) < size THEN d \o [k \in 1..(size - Len(d)) |-> 0] ELSE d

\* if (i == digits_.size()) digits_.push_back(0)
GrowTo(d, i) == IF i = Len(d) THEN Append(d, 0) ELSE d

LimbAt(o, i) == IF i < Len(o) THEN o[i + 1] ELSE 0

RECURSIVE AddLoop(_, _, _, _)
\* A pass that stores the sum without the wrap by kBase and carries nothing.
AddLimbNoWrap(d, o, i, sum) ==
  IF CheckOverflowThrows(sum)
  THEN [d |-> [d EXCEPT ![i + 1] = sum], err |-> "overflow"]
  ELSE AddLoop([d EXCEPT ![i + 1] = sum], o, i + 1, 0)

\* The rest of one pass: sum is digits_[i] after the += statement.
AddLimb(d, o, i, sum) ==
  IF CheckOverflowThrows(IF sum >= kBase THEN sum - kBase ELSE sum)
  THEN [d |-> [d EXCEPT ![i + 1] = IF sum >= kBase THEN sum - kBase ELSE sum],
        err |-> "overflow"]
  ELSE AddLoop([d EXCEPT ![i + 1] = IF sum >= kBase THEN sum - kBase ELSE sum],
               o, i + 1, IF sum >= kBase THEN 1 ELSE 0)

AddPass(d, o, i, carry) == AddLimb(d, o, i, d[i + 1] + carry + LimbAt(o, i))

\* The for statement of operator+=, from its pass i on.
AddLoop(d, o, i, carry) ==
  IF ~(i < Len(d) \/ carry # 0) THEN [d |-> d, err |-> "none"]
  ELSE AddPass(GrowTo(d, i), o, i, carry)

RECURSIVE SubLoop(_, _, _, _)
\* The rest of one pass: diff is digits_[i] after the -= statement.
SubLimb(d, o, i, diff) ==
  IF CheckOverflowThrows(IF diff < 0 THEN diff + kBase ELSE diff)
  THEN [d |-> [d EXCEPT ![i + 1] = IF diff < 0 THEN diff + kBase ELSE diff],
        err |-> "overflow"]
  ELSE SubLoop([d EXCEPT ![i + 1] = IF diff < 0 THEN diff + kBase ELSE diff],
               o, i + 1, IF diff < 0 THEN 1 ELSE 0)

SubPass(d, o, i, borrow) == SubLimb(d, o, i, d[i + 1] - (borrow + LimbAt(o, i)))

\* The for statement of operator-=, from its pass i on.
SubLoop(d, o, i, borrow) ==
  IF ~(i < Len(o) \/ borrow # 0) THEN [d |-> d, err |-> "none"]
  ELSE SubPass(GrowTo(d, i), o, i, borrow)

\* Normalize() after the loop left s = [d, err]; a throw skips it.
AfterLoop(neg, s) ==
  IF s.err # "none" THEN Throw(BI(s.d, neg), s.err)
  ELSE Ok(Normalize(BI(s.d, neg)))

\* Normalize() after the nested compound assignment returned t.
AfterNested(t) == IF t.err # "none" THEN t ELSE Ok(Normalize(t.v))

\* *this = -(other - *this), then Normalize(); t is what other - *this gave.
AfterSwapped(this, t) ==
  IF t.err # "none" THEN Throw(this, t.err) ELSE Ok(Normalize(Negate(t.v)))

RECURSIVE AddAssign(_, _, _)
RECURSIVE SubAssign(_, _, _)

\* BigInteger::operator+=
AddAssign(this, other, calls) ==
  IF <<"+=", this, other>> \in calls THEN Throw(this, "no_return")
  ELSE IF this.is_negative = other.is_negative
  THEN AfterLoop(this.is_negative,
                 AddLoop(PadZeros(this.digits,
                                  Max2(Len(this.digits), Len(other.digits)) + 1),
                         other.digits, 0, 0))
  ELSE AfterNested(SubAssign(this, Negate(other),
                             calls \cup {<<"+=", this, other>>}))

\* BigInteger::operator-=
SubAssign(this, other, calls) ==
  IF <<"-=", this, other>> \in calls THEN Throw(this, "no_return")
  ELSE IF this.is_negative = other.is_negative
  THEN IF GreaterEq(Absolute(this), Absolute(other))
       THEN AfterLoop(this.is_negative,
                      SubLoop(this.digits, other.digits, 0, 0))
       ELSE AfterSwapped(this, SubAssign(other, this,
                                         calls \cup {<<"-=", this, other>>}))
  ELSE AfterNested(AddAssign(this, Negate(other),
                             calls \cup {<<"-=", this, other>>}))

\* operator+(BigInteger a, const BigInteger& b)
Plus(x, y) == AddAssign(x, y, {})

\* operator-(BigInteger a, const BigInteger& b)
Minus(x, y) == SubAssign(x, y, {})

(***************************************************************************)
(* Multiplication.                                                         *)
(***************************************************************************)
\* The while statement of DigitCount.
RECURSIVE CountDigits(_, _)
CountDigits(last, count) ==
  IF last > 0 THEN CountDigits(last \div 10, count + 1) ELSE count

\* A digit count that charges kBaseDigits digits for every limb, the most
\* significant one included.
DigitCountWholeLimbs(x) ==
  IF x.digits = <<>> THEN 1 ELSE Len(x.digits) * kBaseDigits

\* BigInteger::DigitCount
DigitCount(x) ==
  IF x.digits = <<>> THEN 1
  ELSE CountDigits(x.digits[Len(x.digits)], (Len(x.digits) - 1) * kBaseDigits)

\* The two guarded statements of the inner loop, for the product p.
MulStore(res, k, p) ==
  [res |-> IF k < Len(res) THEN [res EXCEPT ![k + 1] = p % kBase] ELSE res,
   carry |-> p \div kBase]

\* A product of the pass that leaves out the carry of the pass before.
MulTermCarryLost(x, y, i, j, carry) == x[i + 1] * LimbAt(y, j)

\* The product of the pass before result.digits_[i + j] is added.
MulTerm(x, y, i, j, carry) == x[i + 1] * LimbAt(y, j) + carry

\* One pass of the inner loop of MultiplyHelper; s = [res, carry].
MulStep(x, y, i, s, j) ==
  MulStore(s.res, i + j,
           IF i + j < Len(s.res)
           THEN MulTerm(x, y, i, j, s.carry) + s.res[i + j + 1]
           ELSE MulTerm(x, y, i, j, s.carry))

\* The passes lo..hi of the inner loop, all with j < b.digits_.size().
RECURSIVE MulInner(_, _, _, _, _, _)
MulInner(x, y, i, s, lo, hi) ==
  IF lo > hi THEN s
  ELSE IF lo = hi THEN MulStep(x, y, i, s, lo)
  ELSE LET first == MulInner(x, y, i, s, lo, (lo + hi) \div 2)
       IN \* the test has the first half computed before the second starts
          IF first.carry >= 0
          THEN MulInner(x, y, i, first, ((lo + hi) \div 2) + 1, hi)
          ELSE first

\* The passes of the inner loop that run only because carry != 0.
RECURSIVE MulCarry(_, _, _, _, _)
MulCarry(x, y, i, s, j) ==
  IF s.carry # 0 THEN MulCarry(x, y, i, MulStep(x, y, i, s, j), j + 1) ELSE s

\* One pass of the outer loop: the whole inner loop for the limb i of a.
MulRow(x, y, res, i) ==
  MulCarry(x, y, i,
           MulInner(x, y, i, [res |-> res, carry |-> 0], 0, Len(y) - 1),
           Len(y)).res

\* The passes lo..hi of the outer loop.
RECURSIVE MulOuter(_, _, _, _, _)
MulOuter(x, y, res, lo, hi) ==
  IF lo > hi THEN res
  ELSE IF lo = hi THEN MulRow(x, y, res, lo)
  ELSE LET first == MulOuter(x, y, res, lo, (lo + hi) \div 2)
       IN \* the test has the first half computed before the second starts
          IF Len(first) = Len(res)
          THEN MulOuter(x, y, first, ((lo + hi) \div 2) + 1, hi)
          ELSE first

\* The ceiling on the normalized result.
MulCeiling(result) ==
  IF DigitCount(result) > kMaxDigitCount THEN Throw(result, "overflow")
  ELSE Ok(result)

\* BigInteger::MultiplyHelper; v is the out-parameter result.
MultiplyHelper(x, y) ==
  MulCeiling(Normalize(
    BI(MulOuter(x.digits, y.digits,
                PadZeros(<<>>, Len(x.digits) + Len(y.digits)),
                0, Len(x.digits) - 1),
       x.is_negative # y.is_negative)))

\* *this = result, reached only when MultiplyHelper (outcome m) returned.
MulAssigned(this, m) == IF m.err # "none" THEN Throw(this, m.err) ELSE Ok(m.v)

\* BigInteger::operator*=
MulAssign(this, other) == MulAssigned(this, MultiplyHelper(this, other))

\* operator*(BigInteger a, const BigInteger& b)
Times(x, y) == MulAssign(x, y)

(***************************************************************************)
(* Division.                                                               *)
(***************************************************************************)
\* BigInteger::CheckDivision: TRUE when it throws BigIntegerDivisionByZero.
CheckDivisionThrows(divisor) == divisor.digits = <<>>

RECURSIVE DivSearch(_, _, _, _, _)
\* The body of the while statement, for temp = abs_divisor * BigInteger(mid).
DivProbe(abs_divisor, remainder, left, right, digit, mid, temp) ==
  IF temp.err # "none" THEN [digit |-> digit, err |-> temp.err]
  ELSE IF LessEq(temp.v, remainder)
       THEN DivSearch(abs_divisor, remainder, mid + 1, right, mid)
       ELSE DivSearch(abs_divisor, remainder, left, mid - 1, digit)

\* The while statement of DivideHelper: the binary search for the limb.
DivSearch(abs_divisor, remainder, left, right, digit) ==
  IF ~(left <= right) THEN [digit |-> digit, err |-> "none"]
  ELSE DivProbe(abs_divisor, remainder, left, right, digit,
                (left + right) \div 2,
                Times(abs_divisor, FromInt((left + right) \div 2)))

\* The state after the pass, for the outcome sub of the subtraction.
DivPassEnd(quotient, sub) ==
  [quotient |-> quotient, remainder |-> sub.v, err |-> sub.err]

\* remainder -= t, for the outcome t of abs_divisor * BigInteger(digit).
DivSubtract(quotient, rem, t) ==
  IF t.err # "none" THEN [quotient |-> quotient, remainder |-> rem, err |-> t.err]
  ELSE DivPassEnd(quotient, SubAssign(rem, t.v, {}))

\* quotient.digits_[i] = digit, for the outcome f of the search.
DivStore(abs_divisor, quotient, i, rem, f) ==
  IF f.err # "none" THEN [quotient |-> quotient, remainder |-> rem, err |-> f.err]
  ELSE DivSubtract([quotient EXCEPT ![i + 1] = f.digit], rem,
                   Times(abs_divisor, FromInt(f.digit)))

\* The pass after the limb was inserted and the remainder normalized to rem.
DivLimb(abs_divisor, quotient, i, rem) ==
  DivStore(abs_divisor, quotient, i, rem, DivSearch(abs_divisor, rem, 0, kBase, 0))

\* One pass of the for statement of DivideHelper; s = [quotient, remainder, err].
DivStep(abs_dividend, abs_divisor, s, i) ==
  IF s.err # "none" THEN s
  ELSE DivLimb(abs_divisor, s.quotient, i,
               Normalize(BI(<<abs_dividend.digits[i + 1]>> \o s.remainder.digits,
                            s.remainder.is_negative)))

\* The passes hi, hi - 1, ..., lo of the for statement.
RECURSIVE DivLoop(_, _, _, _, _)
DivLoop(abs_dividend, abs_divisor, s, hi, lo) ==
  IF hi < lo THEN s
  ELSE IF hi = lo THEN DivStep(abs_dividend, abs_divisor, s, hi)
  ELSE LET first == DivLoop(abs_dividend, abs_divisor, s, hi,
                            ((lo + hi) \div 2) + 1)
       IN IF first.err # "none" THEN first
          ELSE DivLoop(abs_dividend, abs_divisor, first, (lo + hi) \div 2, lo)

\* The signs and the two Normalize() calls after the loop left s.
DivEnd(dividend, divisor, s) ==
  IF s.err # "none"
  THEN [quotient |-> BI(s.quotient, FALSE), remainder |-> s.remainder,
        err |-> s.err]
  ELSE [quotient |-> Normalize(BI(s.quotient,
                                  dividend.is_negative # divisor.is_negative)),
        remainder |-> Normalize(BI(s.remainder.digits, dividend.is_negative)),
        err |-> "none"]

\* BigInteger::DivideHelper, called with quotient and remainder default-made.
DivideHelper(dividend, divisor) ==
  DivEnd(dividend, divisor,
         DivLoop(Absolute(dividend), Absolute(divisor),
                 [quotient |-> PadZeros(<<>>, Len(dividend.digits)),
                  remainder |-> DefaultBigInteger, err |-> "none"],
                 Len(dividend.digits) - 1, 0))

\* *this = quotient, reached only when DivideHelper (outcome q) returned.
QuotientAssigned(this, q) ==
  IF q.err # "none" THEN Throw(this, q.err) ELSE Ok(q.quotient)

\* *this = remainder, reached only when DivideHelper (outcome q) returned.
RemainderAssigned(this, q) ==
  IF q.err # "none" THEN Throw(this, q.err) ELSE Ok(q.remainder)

\* A division that goes to DivideHelper without CheckDivision.
DivAssignUnchecked(this, other) ==
  QuotientAssigned(this, DivideHelper(this, other))

\* BigInteger::operator/=
DivAssign(this, other) ==
  IF CheckDivisionThrows(other) THEN Throw(this, "division_by_zero")
  ELSE QuotientAssigned(this, DivideHelper(this, other))

\* BigInteger::operator%=
ModAssign(this, other) ==
  IF CheckDivisionThrows(other) THEN Throw(this, "division_by_zero")
  ELSE RemainderAssigned(this, DivideHelper(this, other))

\* operator/(BigInteger a, const BigInteger& b)
Divide(x, y) == DivAssign(x, y)

\* operator%(BigInteger a, const BigInteger& b)
Modulo(x, y) == ModAssign(x, y)

(***************************************************************************)
(* The state machine.  a and b are two BigInteger objects of the caller,   *)
(* r is the value the last value-returning operator returned, product is   *)
(* the result object of the last MultiplyHelper call the caller asked for, *)
(* op names the last operation and err its failure ("none" when it         *)
(* returned), text is the last string given to the parser, out the last    *)
(* text written by operator<<, cmp the six answers of the last comparison  *)
(* of a with b, and n counts the operations done.                          *)
(***************************************************************************)
MaxOps == 3

MaxFactorLen == 8

MaxDividendLen == 8

IntSeeds == {0, -1, 2, -7, 9999, -10000, 99999999}

TextSeeds ==
  { <<"0">>, <<"-", "0">>, <<"+", "0">>, <<"-">>, <<>>,
    <<"-", "0", "0", "0", "0", "0">>, <<"+", "5">>,
    <<"-", "1", "2", "3", "4", "5">>, <<"0", "-">> }

NoCmp == [lt |-> FALSE, le |-> FALSE, gt |-> FALSE, ge |-> FALSE,
          eq |-> FALSE, ne |-> FALSE]

Init ==
  /\ a = DefaultBigInteger
  /\ b = DefaultBigInteger
  /\ r = DefaultBigInteger
  /\ product = DefaultBigInteger
  /\ op = "init"
  /\ err = "none"
  /\ text = <<>>
  /\ out = <<>>
  /\ cmp = NoCmp
  /\ n = 0

\* The caller does at most MaxOps operations.
Ready == n < MaxOps

\* The operation named o ended with failure e; it counts as one operation.
Done(o, e) == op' = o /\ err' = e /\ n' = n + 1

\* BigInteger x(value) for a native integer.
ConstructInt ==
  \E value \in IntSeeds :
    /\ Ready
    /\ \/ a' = FromInt(value) /\ UNCHANGED b
       \/ b' = FromInt(value) /\ UNCHANGED a
    /\ Done("int", "none")
    /\ UNCHANGED <<r, product, text, out, cmp>>

\* The object made from str, for the outcome p of ParseString.
Parsed(str, p) ==
  /\ \/ a' = (IF p.err = "none" THEN p.v ELSE a) /\ UNCHANGED b
     \/ b' = (IF p.err = "none" THEN p.v ELSE b) /\ UNCHANGED a
  /\ text' = str
  /\ Done("string", p.err)
  /\ UNCHANGED <<r, product, out, cmp>>

\* BigInteger x(str), and is >> x, which assigns BigInteger(s): when the
\* parser throws, no object is made and the target keeps its value.
ConstructString ==
  \E str \in TextSeeds : Ready /\ Parsed(str, ParseString(str))

\* The defaulted copy constructor and copy assignment.
Copy ==
  /\ Ready
  /\ \/ a' = b /\ UNCHANGED b
     \/ b' = a /\ UNCHANGED a
     \/ a' = r /\ UNCHANGED b
     \/ b' = r /\ UNCHANGED a
  /\ Done("copy", "none")
  /\ UNCHANGED <<r, product, text, out, cmp>>

\* The defaulted move constructor and move assignment, member by member:
\* the vector is taken from the source, which is left empty, and the bool
\* is copied.
MovedFrom(x) == BI(<<>>, x.is_negative)

Move ==
  /\ Ready
  /\ \/ a' = b /\ b' = MovedFrom(b)
     \/ b' = a /\ a' = MovedFrom(a)
  /\ Done("move", "none")
  /\ UNCHANGED <<r, product, text, out, cmp>>

\* -a, +a, a.Absolute()
Unary ==
  /\ Ready
  /\ \/ r' = Negate(a) /\ Done("neg", "none")
     \/ r' = UnaryPlus(a) /\ Done("pos", "none")
     \/ r' = Absolute(a) /\ Done("abs", "none")
  /\ UNCHANGED <<a, b, product, text, out, cmp>>

\* A compound assignment to a whose outcome is t: a call that does not
\* return leaves the program without a value for a, modelled as a unchanged.
Assigned(o, t) ==
  /\ a' = (IF t.err = "no_return" THEN a ELSE t.v)
  /\ Done(o, t.err)
  /\ UNCHANGED <<b, r, product, text, out, cmp>>

\* A binary operator on (a, b) whose outcome is t.
Returned(o, t) ==
  /\ r' = (IF t.err = "none" THEN t.v ELSE r)
  /\ Done(o, t.err)
  /\ UNCHANGED <<a, b, product, text, out, cmp>>

\* a += b, a -= b
AddSubAssign ==
  /\ Ready
  /\ \/ Assigned("+=", AddAssign(a, b, {}))
     \/ Assigned("-=", SubAssign(a, b, {}))

\* a + b, a - b
AddSub ==
  /\ Ready
  /\ \/ Returned("+", Plus(a, b))
     \/ Returned("-", Minus(a, b))

\* *this = result in operator*=, for the outcome m of MultiplyHelper.
MultipliedInto(m) ==
  /\ a' = (IF m.err = "none" THEN m.v ELSE a)
  /\ product' = m.v
  /\ Done("*=", m.err)
  /\ UNCHANGED <<b, r, text, out, cmp>>

\* return a *= b in operator*, for the outcome m of MultiplyHelper.
MultipliedOut(m) ==
  /\ r' = (IF m.err = "none" THEN m.v ELSE r)
  /\ product' = m.v
  /\ Done("*", m.err)
  /\ UNCHANGED <<a, b, text, out, cmp>>

\* a *= b
MultiplyAssign ==
  /\ Ready
  /\ Len(a.digits) <= MaxFactorLen \/ Len(b.digits) <= MaxFactorLen
  /\ MultipliedInto(MultiplyHelper(a, b))

\* a * b
Multiply ==
  /\ Ready
  /\ Len(a.digits) <= MaxFactorLen \/ Len(b.digits) <= MaxFactorLen
  /\ MultipliedOut(MultiplyHelper(a, b))

\* a /= b, a %= b
DivModAssign ==
  /\ Ready
  /\ Len(a.digits) <= MaxDividendLen
  /\ \/ Assigned("/=", DivAssign(a, b))
     \/ Assigned("%=", ModAssign(a, b))

\* a / b, a % b
DivMod ==
  /\ Ready
  /\ Len(a.digits) <= MaxDividendLen
  /\ \/ Returned("/", Divide(a, b))
     \/ Returned("%", Modulo(a, b))

\* A postfix operator on a: temp = *this, the prefix form (outcome t),
\* return temp.
Postfix(o, t) ==
  /\ a' = (IF t.err = "no_return" THEN a ELSE t.v)
  /\ r' = (IF t.err = "none" THEN a ELSE r)
  /\ Done(o, t.err)
  /\ UNCHANGED <<b, product, text, out, cmp>>

\* ++a, a++, --a, a--: the postfix forms return the old value.
IncDec ==
  /\ Ready
  /\ \/ Assigned("++pre", AddAssign(a, FromInt(1), {}))
     \/ Assigned("--pre", SubAssign(a, FromInt(1), {}))
     \/ Postfix("post++", AddAssign(a, FromInt(1), {}))
     \/ Postfix("post--", SubAssign(a, FromInt(1), {}))

\* a < b, a <= b, a > b, a >= b, a == b, a != b
Compare ==
  /\ Ready
  /\ cmp' = [lt |-> Less(a, b), le |-> LessEq(a, b), gt |-> Greater(a, b),
             ge |-> GreaterEq(a, b), eq |-> Equal(a, b), ne |-> NotEqual(a, b)]
  /\ Done("compare", "none")
  /\ UNCHANGED <<a, b, r, product, text, out>>

\* os << a
Output ==
  /\ Ready
  /\ out' = Format(a)
  /\ Done("<<", "none")
  /\ UNCHANGED <<a, b, r, product, text, cmp>>

Next ==
  \/ ConstructInt
  \/ ConstructString
  \/ Copy
  \/ Move
  \/ Unary
  \/ AddSubAssign
  \/ AddSub
  \/ MultiplyAssign
  \/ Multiply
  \/ DivModAssign
  \/ DivMod
  \/ IncDec
  \/ Compare
  \/ Output

Spec == Init /\ [][Next]_vars

(***************************************************************************)
(* The same operators at the ceiling of kMaxDigitCount decimal digits: a   *)
(* and b are constructed from strings that are as long as the ceiling, or  *)
(* short, and the caller does one multiplication, division or modulo.      *)
(***************************************************************************)
Repeat(c, k) == [i \in 1..k |-> c]

CeilTexts ==
  { <<"1">> \o Repeat("0", kMaxDigitCount - 1),
    <<"9">> \o Repeat("9", kMaxDigitCount - 1),
    <<"-", "1">> \o Repeat("0", kMaxDigitCount - 3),
    <<"0">>, <<"1">>, <<"-", "1">>, <<"2">>, <<"9">>, <<"1", "0">>,
    <<"9", "9", "9">>, <<"1", "0", "0", "0">> }

CeilValues == { ParseString(str).v : str \in CeilTexts }

InitCeiling ==
  /\ a \in CeilValues
  /\ b \in CeilValues
  /\ r = DefaultBigInteger
  /\ product = DefaultBigInteger
  /\ op = "init"
  /\ err = "none"
  /\ text = <<>>
  /\ out = <<>>
  /\ cmp = NoCmp
  /\ n = 0

CeilMultiply == n = 0 /\ Multiply

CeilDivMod == n = 0 /\ DivMod

NextCeiling == CeilMultiply \/ CeilDivMod

SpecCeiling == InitCeiling /\ [][NextCeiling]_vars

(***************************************************************************)
(* The integer a value represents, for the properties: limbs are compared  *)
(* as a number in base kBase, whatever the length of the two sequences,    *)
(* and a magnitude of zero has no sign.                                    *)
(***************************************************************************)
LimbOrZero(x, i) == IF i <= Len(x.digits) THEN x.digits[i] ELSE 0

MagnitudeIsZero(x) == \A i \in 1..Len(x.digits) : x.digits[i] = 0

MagnitudeLess(x, y) ==
  \E i \in 1..Max2(Len(x.digits), Len(y.digits)) :
    /\ LimbOrZero(x, i) < LimbOrZero(y, i)
    /\ \A j \in (i + 1)..Max2(Len(x.digits), Len(y.digits)) :
         LimbOrZero(x, j) = LimbOrZero(y, j)

BelowZero(x) == x.is_negative /\ ~MagnitudeIsZero(x)

IntLess(x, y) ==
  IF BelowZero(x) THEN (IF BelowZero(y) THEN MagnitudeLess(y, x) ELSE TRUE)
  ELSE (IF BelowZero(y) THEN FALSE ELSE MagnitudeLess(x, y))

IntEqual(x, y) == ~IntLess(x, y) /\ ~IntLess(y, x)

\* The number of decimal digits of the magnitude of a normalized value.
DecimalDigits(x) ==
  IF x.digits = <<>> THEN 1
  ELSE kBaseDigits * (Len(x.digits) - 1) +
       (CHOOSE w \in 1..kBaseDigits :
          /\ \E c \in 1..9 : x.digits[Len(x.digits)] \div (10 ^ (w - 1)) = c)

\* An optional sign, then decimal digits without a superfluous leading zero.
IsDecimal(str) ==
  /\ str # <<>>
  /\ \A i \in 1..Len(str) : \E k \in 1..10 : DigitChars[k] = str[i]
  /\ Len(str) > 1 => str[1] # "0"

Canonical(str) ==
  /\ str # <<>>
  /\ IF str[1] \in {"+", "-"} THEN IsDecimal(Tail(str)) ELSE IsDecimal(str)

\* The representation invariants of the data model: limbs in [0, kBase), no
\* zero limb at the most significant end, no sign on the empty sequence.
WellFormed(x) ==
  /\ \A i \in 1..Len(x.digits) : 0 <= x.digits[i] /\ x.digits[i] < kBase
  /\ x.digits # <<>> => x.digits[Len(x.digits)] # 0
  /\ x.digits = <<>> => ~x.is_negative

ArithmeticOps == {"+=", "-=", "+", "-", "++pre", "--pre", "post++", "post--"}

DivisionOps == {"/=", "%=", "/", "%"}

(***************************************************************************)
(* Properties.                                                             *)
(***************************************************************************)
\* C1: in every object and every returned value an empty digit sequence is
\* paired with is_negative = FALSE, also after parsing "-0", "-0000" or "-".
C1_NoNegativeZero ==
  \A x \in {a, b, r} : x.digits = <<>> => ~x.is_negative

\* C2: every a += b, a -= b, a + b, a - b and every increment or decrement
\* returns: the redirection between operator+= and operator-= never
\* re-enters a call with the operands it is already active with.
C2_RedirectionReturns == op \in ArithmeticOps => err # "no_return"

\* C3: for well-formed a and b with b != 0 the quotient a / b is returned,
\* a == (a / b) * b + (a % b), and a % b is zero or has the sign of a.
C3_DivisionLaw ==
  (op = "/" /\ b.digits # <<>> /\ WellFormed(a) /\ WellFormed(b)) =>
    /\ err = "none"
    /\ Modulo(a, b).err = "none"
    /\ Times(r, b).err = "none"
    /\ Plus(Times(r, b).v, Modulo(a, b).v).err = "none"
    /\ Equal(a, Plus(Times(r, b).v, Modulo(a, b).v).v)
    /\ \/ Modulo(a, b).v.digits = <<>>
       \/ Modulo(a, b).v.is_negative = a.is_negative

\* C4: a < b answers whether the integer of a is smaller than the integer of
\* b, and a == b whether the two are the same integer; two zeros are equal
\* whatever their sign flags.
C4_OrderIsNumeric ==
  op = "compare" =>
    /\ cmp.lt <=> IntLess(a, b)
    /\ cmp.eq <=> IntEqual(a, b)

\* C5: when a holds the value parsed from a canonical decimal string, os << a
\* writes that string, except that "-0" is written "0"; a zero is always
\* written as the single character "0".
C5_RoundTrip ==
  op = "<<" =>
    /\ (Canonical(text) /\ ParseString(text) = Ok(a)) =>
         out = (IF text = <<"-", "0">> THEN <<"0">> ELSE text)
    /\ MagnitudeIsZero(a) => out = <<"0">>

\* C6: for well-formed a and b, (a + b) - b == a and (a - b) + b == a: after
\* r = a + b the difference r - b compares equal to a, and after r = a - b
\* the sum r + b does.
C6_AddSubInverse ==
  (WellFormed(a) /\ WellFormed(b)) =>
    /\ op = "+" => /\ err = "none"
                   /\ Minus(r, b).err = "none"
                   /\ Equal(Minus(r, b).v, a)
    /\ op = "-" => /\ err = "none"
                   /\ Plus(r, b).err = "none"
                   /\ Equal(Plus(r, b).v, a)

\* C7: a division or modulo step signals division-by-zero exactly when the
\* divisor has zero magnitude, whatever its sign flag, and then it leaves
\* the dividend a and the last returned value r as they were.
C7_DivisionByZero ==
  [][(op' \in DivisionOps /\ n' = n + 1) =>
       /\ (err' = "division_by_zero") <=> (b.digits = <<>>)
       /\ b.digits = <<>> => (a' = a /\ r' = r /\ b' = b)]_vars

\* C7 witness: a /= b has thrown for a divisor parsed from "-0" or "-".
C7_Witness ==
  /\ op = "/="
  /\ err = "division_by_zero"
  /\ b = BI(<<>>, TRUE)
  /\ a.digits # <<>>

\* C8: a multiplication signals overflow exactly when the normalized product
\* has more than kMaxDigitCount decimal digits; otherwise it signals nothing
\* and returns the product.
C8_OverflowAboveCeiling ==
  op \in {"*", "*="} =>
    /\ (err = "overflow") <=> (DecimalDigits(product) > kMaxDigitCount)
    /\ err \in {"none", "overflow"}
    /\ err = "none" => r = product

\* C8 witness: a product of exactly kMaxDigitCount + 1 digits was refused.
C8_Witness ==
  /\ op = "*"
  /\ err = "overflow"
  /\ DecimalDigits(product) = kMaxDigitCount + 1

\* C9: a / b and a % b with b != 0 signal no failure when a and b have at
\* most kMaxDigitCount decimal digits, so an overflow never comes from a
\* division or modulo.
C9_DivisionSignalsNothing ==
  (/\ op \in DivisionOps
   /\ b.digits # <<>>
   /\ DecimalDigits(a) <= kMaxDigitCount
   /\ DecimalDigits(b) <= kMaxDigitCount) => err = "none"

\* C10: over the values a, b and r, exactly one of x < y, x == y, y < x
\* holds, x < y and y < z imply x < z, and the six answers of a comparison
\* agree with the primitive operator<.
C10_StrictTotalOrder ==
  /\ \A x, y \in {a, b, r} :
       \/ Less(x, y) /\ ~Equal(x, y) /\ ~Less(y, x)
       \/ ~Less(x, y) /\ Equal(x, y) /\ ~Less(y, x)
       \/ ~Less(x, y) /\ ~Equal(x, y) /\ Less(y, x)
  /\ \A x, y, z \in {a, b, r} : (Less(x, y) /\ Less(y, z)) => Less(x, z)
  /\ op = "compare" =>
       /\ cmp.ne <=> ~cmp.eq
       /\ cmp.le <=> ~Less(b, a)
       /\ cmp.gt <=> Less(b, a)
       /\ cmp.ge <=> ~cmp.lt
       /\ cmp.lt <=> Less(a, b)
       /\ cmp.eq <=> (~Less(a, b) /\ ~Less(b, a))

\* C10 witness: a comparison answered a < b while b < r, with a negative,
\* b zero and r positive.
C10_Witness ==
  /\ op = "compare"
  /\ cmp.lt
  /\ Less(b, r)
  /\ a.is_negative
  /\ b.digits = <<>>

\* C11: after r = -a, the sum a + r is returned and compares equal to 0,
\* -r compares equal to a, and the negation of a zero magnitude is the
\* non-negative zero.
C11_NegationInverse ==
  op = "neg" =>
    /\ Plus(a, r).err = "none"
    /\ Equal(Plus(a, r).v, FromInt(0))
    /\ Equal(Negate(r), a)
    /\ a.digits = <<>> => r = DefaultBigInteger

\* C12: a move makes the destination hold the value the source had and
\* leaves the source with an empty digit sequence and is_negative = FALSE.
C12_MoveLeavesCanonicalZero ==
  [][(op' = "move" /\ n' = n + 1) =>
       \/ a' = b /\ b' = DefaultBigInteger
       \/ b' = a /\ a' = DefaultBigInteger]_vars

\* The coefficient of kBase^k in the product of the limb sequences x and y,
\* before carries: the sum of x[i] * y[k - i] from i on.
RECURSIVE CoefficientFrom(_, _, _, _)
CoefficientFrom(x, y, k, i) ==
  IF i > k THEN 0
  ELSE (IF i < Len(x) /\ k - i < Len(y) THEN x[i + 1] * y[k - i + 1] ELSE 0)
       + CoefficientFrom(x, y, k, i + 1)

\* The limbs of the product from position k on, for the carry into k.
RECURSIVE ProductFrom(_, _, _, _)
ProductFrom(x, y, k, carry) ==
  IF k >= Len(x) + Len(y) THEN (IF carry = 0 THEN <<>> ELSE <<carry>>)
  ELSE <<(CoefficientFrom(x, y, k, 0) + carry) % kBase>>
       \o ProductFrom(x, y, k + 1,
                      (CoefficientFrom(x, y, k, 0) + carry) \div kBase)

\* The limb sequence d up to its last non-zero limb.
Significant(d) ==
  SubSeq(d, 1, CHOOSE m \in 0..Len(d) :
                 /\ m > 0 => d[m] # 0
                 /\ \A i \in (m + 1)..Len(d) : d[i] = 0)

\* The integer x * y as a value: magnitude |x| * |y|, negative exactly when
\* the signs differ and the magnitude is not zero.
MathProduct(x, y) ==
  BI(Significant(ProductFrom(x.digits, y.digits, 0, 0)),
     /\ x.is_negative # y.is_negative
     /\ Significant(ProductFrom(x.digits, y.digits, 0, 0)) # <<>>)

\* C13: a multiplication whose mathematical product has at most
\* kMaxDigitCount digits signals nothing, its result object is exactly that
\* product, and the result is what a * b returns and what a *= b leaves in a.
C13_ProductIsExact ==
  [][(/\ op' \in {"*", "*="}
      /\ n' = n + 1
      /\ DecimalDigits(MathProduct(a, b)) <= kMaxDigitCount) =>
       /\ err' = "none"
       /\ product' = MathProduct(a, b)
       /\ op' = "*" => r' = product'
       /\ op' = "*=" => a' = product']_vars

\* C13 witness: a * b returned a negative product that fills all
\* len(a) + len(b) limbs, for an a of several limbs.
C13_Witness ==
  /\ op = "*"
  /\ err = "none"
  /\ r.is_negative
  /\ Len(a.digits) >= 2
  /\ Len(r.digits) = Len(a.digits) + Len(b.digits)

\* The loop state of DivideHelper before the pass for the limb i of the
\* dividend x divided by y.
BeforePass(x, y, i) ==
  DivLoop(Absolute(x), Absolute(y),
          [quotient |-> PadZeros(<<>>, Len(x.digits)),
           remainder |-> DefaultBigInteger, err |-> "none"],
          Len(x.digits) - 1, i + 1)

\* The running remainder of the pass i once the limb i was brought down.
BroughtDown(x, before, i) ==
  Normalize(BI(<<x.digits[i + 1]>> \o before.remainder.digits,
               before.remainder.is_negative))

\* magnitude of x <= magnitude of y
MagnitudeAtMost(x, y) == ~MagnitudeLess(y, x)

\* The pass i: the search returns f, the largest limb with
\* |y| * f.digit <= rem, below kBase, and the pass leaves a remainder in
\* [0, |y|) and f.digit as quotient limb.
PassHolds(y, i, rem, f, after) ==
  /\ f.err = "none"
  /\ f.digit \in 0..(kBase - 1)
  /\ MagnitudeAtMost(MathProduct(Absolute(y), FromInt(f.digit)), rem)
  /\ MagnitudeLess(rem, MathProduct(Absolute(y), FromInt(f.digit + 1)))
  /\ after.err = "none"
  /\ ~after.remainder.is_negative
  /\ MagnitudeLess(after.remainder, y)
  /\ after.quotient[i + 1] = f.digit

PassHoldsAt(x, y, i) ==
  /\ BeforePass(x, y, i).err = "none"
  /\ PassHolds(y, i, BroughtDown(x, BeforePass(x, y, i), i),
               DivSearch(Absolute(y), BroughtDown(x, BeforePass(x, y, i), i),
                         0, kBase, 0),
               DivStep(Absolute(x), Absolute(y), BeforePass(x, y, i), i))

\* C14: after a / b or a % b with b != 0, every pass of the long division
\* found the largest limb d < kBase with |b| * d <= remainder and left a
\* remainder in [0, |b|); the division returned, every quotient limb is in
\* [0, kBase) and |a % b| < |b|.
C14_DivisionSteps ==
  (op \in {"/", "%"} /\ b.digits # <<>>) =>
    /\ \A i \in 0..(Len(a.digits) - 1) : PassHoldsAt(a, b, i)
    /\ DivideHelper(a, b).err = "none"
    /\ \A k \in 1..Len(DivideHelper(a, b).quotient.digits) :
         DivideHelper(a, b).quotient.digits[k] \in 0..(kBase - 1)
    /\ MagnitudeLess(DivideHelper(a, b).remainder, b)

\* Every stored limb of x is in [0, kBase) and the most significant stored
\* limb is not zero.
LimbsInRange(x) ==
  /\ \A i \in 1..Len(x.digits) : 0 <= x.digits[i] /\ x.digits[i] < kBase
  /\ x.digits # <<>> => x.digits[Len(x.digits)] # 0

\* C15: every object the caller holds has its limbs in [0, kBase) with a
\* non-zero most significant limb, and no addition, subtraction, increment
\* or decrement ends with the overflow of CheckOverflow.
C15_LimbsStayInRange ==
  /\ \A x \in {a, b, r, product} : LimbsInRange(x)
  /\ op \in ArithmeticOps => err # "overflow"

\* C15 witness: a + b of two one-limb values carried into a second limb.
C15_Witness ==
  /\ op = "+"
  /\ err = "none"
  /\ Len(a.digits) = 1
  /\ Len(b.digits) = 1
  /\ Len(r.digits) = 2

====
